---- MODULE Spec2Model ----
(***************************************************************************)
(* AWSRequestSV4: AWS Signature Version 4 signing of an HTTP request.      *)
(*                                                                         *)
(* Two revisions of the class are modelled: version 1.1 (XMLHttpRequest    *)
(* transport, src/unnamed/part_000) and version 1.0 (MooTools Request      *)
(* transport, src/AWSRequestSV4.js).  The canonicalisation methods are the *)
(* same text in both revisions.                                            *)
(*                                                                         *)
(* A JavaScript string is a sequence of one-character strings; Code gives  *)
(* the UTF-16 code unit of a character, which is what the default          *)
(* Array.prototype.sort compares.                                          *)
(***************************************************************************)
EXTENDS Integers, Sequences, FiniteSets, TLC

VARIABLES
    qs,     \* getCanonicalQueryString applied to an input and to its result
    hdr,    \* prepareHeadersEntries applied to a header mapping, then read
    loc,    \* getCanonicalURI and getHost applied to a URL
    clk,    \* the wall clock, and getDate and getISO8601Date reading it
    obj,    \* the AWSRequestSV4 object: its fields and where its life stands
    request,\* this.request, the XMLHttpRequest, and the callbacks it holds
    sig,    \* what prepareRequest() and getSignature() computed
    calls   \* the onSuccess / onFailure calls made so far

vars == <<qs, hdr, loc, clk, obj, request, sig, calls>>

-----------------------------------------------------------------------------
(* JavaScript built-ins used by the class *)

LowerLetters ==
    <<"a", "b", "c", "d", "e", "f", "g", "h", "i", "j", "k", "l", "m",
      "n", "o", "p", "q", "r", "s", "t", "u", "v", "w", "x", "y", "z">>

UpperLetters ==
    <<"A", "B", "C", "D", "E", "F", "G", "H", "I", "J", "K", "L", "M",
      "N", "O", "P", "Q", "R", "S", "T", "U", "V", "W", "X", "Y", "Z">>

DigitChars == <<"0", "1", "2", "3", "4", "5", "6", "7", "8", "9">>

\* the position of c in the sequence of characters chars, 0 if it is not there
PositionIn(chars, c) ==
    IF \E i \in 1..Len(chars) : chars[i] = c
    THEN CHOOSE i \in 1..Len(chars) : chars[i] = c
    ELSE 0

\* the UTF-16 code unit of a character
Code(c) ==
    CASE PositionIn(LowerLetters, c) # 0 -> 96 + PositionIn(LowerLetters, c)
      [] PositionIn(UpperLetters, c) # 0 -> 64 + PositionIn(UpperLetters, c)
      [] PositionIn(DigitChars, c) # 0 -> 47 + PositionIn(DigitChars, c)
      [] c = "\n" -> 10
      [] c = " " -> 32
      [] c = "\"" -> 34
      [] c = "%" -> 37
      [] c = "&" -> 38
      [] c = "(" -> 40
      [] c = ")" -> 41
      [] c = "," -> 44
      [] c = "-" -> 45
      [] c = "/" -> 47
      [] c = ":" -> 58
      [] c = ";" -> 59
      [] c = "=" -> 61
      [] c = "?" -> 63
      [] c = "\\" -> 92
      [] c = "_" -> 95
      [] c = "{" -> 123
      [] c = "}" -> 125

Min(a, b) == IF a < b THEN a ELSE b

\* s < t in the order of the default sort: by code unit, a proper prefix first
StrLess(s, t) ==
    \E i \in 1..(Min(Len(s), Len(t)) + 1) :
        /\ \A j \in 1..(i - 1) : s[j] = t[j]
        /\ \/ i > Len(s) /\ i <= Len(t)
           \/ i <= Len(s) /\ i <= Len(t) /\ Code(s[i]) < Code(t[i])

RECURSIVE SortInsert(_, _)
SortInsert(x, sorted) ==
    IF sorted = <<>> THEN <<x>>
    ELSE IF StrLess(x, Head(sorted)) THEN <<x>> \o sorted
    ELSE <<Head(sorted)>> \o SortInsert(x, Tail(sorted))

\* Array.prototype.sort() with the default comparator, on an array of strings
RECURSIVE ArraySort(_)
ArraySort(arr) ==
    IF arr = <<>> THEN <<>>
    ELSE SortInsert(Head(arr), ArraySort(Tail(arr)))

\* does sub occur in s at (1-based) position i
OccursAt(s, sub, i) ==
    /\ i >= 1
    /\ i + Len(sub) - 1 <= Len(s)
    /\ \A j \in 1..Len(sub) : s[i + j - 1] = sub[j]

\* String.prototype.indexOf: 0-based index of the first occurrence, or -1
IndexOf(s, sub) ==
    IF \E i \in 1..(Len(s) + 1) : OccursAt(s, sub, i)
    THEN (CHOOSE i \in 1..(Len(s) + 1) :
              /\ OccursAt(s, sub, i)
              /\ \A k \in 1..(i - 1) : ~OccursAt(s, sub, k)) - 1
    ELSE -1

\* String.prototype.substring(from) and substring(from, to), 0-based, to excluded
SubstringFrom(s, from) == SubSeq(s, from + 1, Len(s))

Substring(s, from, to) == SubSeq(s, from + 1, to)

IsWhitespace(c) == c \in {" ", "\n"}

RECURSIVE TrimStart(_)
TrimStart(s) ==
    IF s # <<>> /\ IsWhitespace(Head(s)) THEN TrimStart(Tail(s)) ELSE s

RECURSIVE TrimEnd(_)
TrimEnd(s) ==
    IF s # <<>> /\ IsWhitespace(s[Len(s)])
    THEN TrimEnd(SubSeq(s, 1, Len(s) - 1))
    ELSE s

\* String.prototype.trim
Trim(s) == TrimEnd(TrimStart(s))

LowerChar(c) ==
    IF PositionIn(UpperLetters, c) # 0
    THEN LowerLetters[PositionIn(UpperLetters, c)]
    ELSE c

UpperChar(c) ==
    IF PositionIn(LowerLetters, c) # 0
    THEN UpperLetters[PositionIn(LowerLetters, c)]
    ELSE c

\* String.prototype.toLowerCase / toUpperCase
ToLowerCase(s) == [i \in 1..Len(s) |-> LowerChar(s[i])]

ToUpperCase(s) == [i \in 1..Len(s) |-> UpperChar(s[i])]

\* String.prototype.split(sep) for a one-character separator
RECURSIVE Split(_, _)
Split(s, sep) ==
    LET i == IndexOf(s, <<sep>>) IN
    IF i = -1 THEN <<s>>
    ELSE <<Substring(s, 0, i)>> \o Split(SubstringFrom(s, i + 1), sep)

\* Array.prototype.join(sep); the empty array joins to the empty string
RECURSIVE Join(_, _)
Join(arr, sep) ==
    IF arr = <<>> THEN <<>>
    ELSE IF Len(arr) = 1 THEN arr[1]
    ELSE arr[1] \o <<sep>> \o Join(Tail(arr), sep)

\* String.prototype.replace(pattern, by) with a string pattern: the first
\* occurrence only
ReplaceFirst(s, pattern, by) ==
    LET i == IndexOf(s, pattern) IN
    IF i = -1 THEN s
    ELSE Substring(s, 0, i) \o by \o SubstringFrom(s, i + Len(pattern))

\* the characters encodeURI escapes, among those of the model
EncodeURIChar(c) ==
    CASE c = " " -> <<"%", "2", "0">>
      [] c = "%" -> <<"%", "2", "5">>
      [] c = "\"" -> <<"%", "2", "2">>
      [] c = "\n" -> <<"%", "0", "A">>
      [] c = "{" -> <<"%", "7", "B">>
      [] c = "}" -> <<"%", "7", "D">>
      [] c = "\\" -> <<"%", "5", "C">>
      [] OTHER -> <<c>>

\* encodeURI: reserved and unreserved characters are kept, the others escaped
RECURSIVE EncodeURI(_)
EncodeURI(s) ==
    IF s = <<>> THEN <<>> ELSE EncodeURIChar(Head(s)) \o EncodeURI(Tail(s))

\* the characters encodeURIComponent escapes and encodeURI keeps
EncodeURIComponentChar(c) ==
    CASE c = "&" -> <<"%", "2", "6">>
      [] c = "," -> <<"%", "2", "C">>
      [] c = "/" -> <<"%", "2", "F">>
      [] c = ":" -> <<"%", "3", "A">>
      [] c = ";" -> <<"%", "3", "B">>
      [] c = "=" -> <<"%", "3", "D">>
      [] c = "?" -> <<"%", "3", "F">>
      [] OTHER -> EncodeURIChar(c)

\* encodeURIComponent
RECURSIVE EncodeURIComponent(_)
EncodeURIComponent(s) ==
    IF s = <<>> THEN <<>>
    ELSE EncodeURIComponentChar(Head(s)) \o EncodeURIComponent(Tail(s))

-----------------------------------------------------------------------------
(* JavaScript values: a string, a plain object (its own keys in insertion   *)
(* order, as a sequence of <<key, value>> pairs), undefined or null         *)

Undefined == [type |-> "undefined"]

Null == [type |-> "null"]

Str(s) == [type |-> "string", val |-> s]

Obj(pairs) == [type |-> "object", val |-> pairs]

\* a result not yet computed
NoResult == [type |-> "none"]

\* typeof
TypeOf(v) == IF v.type = "null" THEN "object" ELSE v.type

\* Object.keys(obj)
ObjectKeys(pairs) == [i \in 1..Len(pairs) |-> pairs[i][1]]

-----------------------------------------------------------------------------
(* Date: an instant is a number of seconds since 1970-01-01T00:00:00Z; the  *)
(* local time zone is a number of minutes east of UTC                       *)

\* '' + n for a number n >= 0
RECURSIVE NumberToString(_)
NumberToString(n) ==
    IF n < 10 THEN <<DigitChars[n + 1]>>
    ELSE NumberToString(n \div 10) \o <<DigitChars[(n % 10) + 1]>>

\* the calendar date of the day that is `days` days after 1970-01-01
CivilFromDays(days) ==
    LET z == days + 719468
        era == z \div 146097
        doe == z - era * 146097
        yoe == (doe - doe \div 1460 + doe \div 36524 - doe \div 146096) \div 365
        doy == doe - (365 * yoe + yoe \div 4 - yoe \div 100)
        mp == (5 * doy + 2) \div 153
        m == IF mp < 10 THEN mp + 3 ELSE mp - 9
    IN  [year |-> yoe + era * 400 + (IF m <= 2 THEN 1 ELSE 0),
         month |-> m,
         day |-> doy - (153 * mp + 2) \div 5 + 1]

\* the instant as the Date object shows it in local time
LocalSeconds(t, zone) == t + zone * 60

\* date.getFullYear(), date.getMonth() (0-11): local time
GetFullYear(t, zone) == CivilFromDays(LocalSeconds(t, zone) \div 86400).year

GetMonth(t, zone) == CivilFromDays(LocalSeconds(t, zone) \div 86400).month - 1

\* date.getMinutes(), date.getSeconds(): local time
GetMinutes(t, zone) == (LocalSeconds(t, zone) % 3600) \div 60

GetSeconds(t, zone) == LocalSeconds(t, zone) % 60

\* date.getUTCDate(), date.getUTCHours(): UTC
GetUTCDate(t) == CivilFromDays(t \div 86400).day

GetUTCHours(t) == (t % 86400) \div 3600

\* (n<10)?('0'+n):n, as it is then concatenated into a string
ZeroPadded(n) ==
    IF n < 10 THEN <<"0">> \o NumberToString(n) ELSE NumberToString(n)

\* getDate(), its new Date() being the instant t
getDate(t, zone) ==
    NumberToString(GetFullYear(t, zone))
        \o ZeroPadded(GetMonth(t, zone) + 1)
        \o ZeroPadded(GetUTCDate(t))

\* getISO8601Date(): its own new Date() is the instant t, the new Date() of
\* the getDate() it calls in its return statement is the instant tDate >= t
getISO8601Date(t, tDate, zone) ==
    getDate(tDate, zone) \o <<"T">>
        \o ZeroPadded(GetUTCHours(t))
        \o ZeroPadded(GetMinutes(t, zone))
        \o ZeroPadded(GetSeconds(t, zone))
        \o <<"Z">>

-----------------------------------------------------------------------------
(* getHost, getCanonicalURI *)

\* getHost(url)
getHost(url) ==
    LET begin == IndexOf(url, <<"/", "/">>) IN
    IF begin # -1 THEN
        LET rest == SubstringFrom(url, begin + 2)
            end == IndexOf(rest, <<"/">>)
        IN  IF end # -1 THEN Substring(rest, 0, end) ELSE rest
    ELSE url

\* lines 122-137 of getCanonicalURI: the path of the URL, before it is
\* lower-cased, trimmed and encoded
PathPart(url) ==
    LET begin == IndexOf(url, <<"/", "/">>) IN
    IF begin # -1 THEN
        LET rest == SubstringFrom(url, begin + 2)
            slash == IndexOf(rest, <<"/">>)
            path == IF slash # -1 THEN SubstringFrom(rest, slash) ELSE rest
            end == IF slash # -1 THEN IndexOf(path, <<"?">>) ELSE -1
        IN  IF end # -1 THEN Substring(path, 0, end) ELSE path
    ELSE url

\* getCanonicalURI(url)
getCanonicalURI(url) == EncodeURI(Trim(ToLowerCase(PathPart(url))))

-----------------------------------------------------------------------------
(* getCanonicalQueryString *)

Threw == [type |-> "TypeError"]

GET == <<"G", "E", "T">>

\* QueryPart gone wrong: the length of the '?' mark is not skipped
QueryPartKeepsMark(url) ==
    LET begin == IndexOf(url, <<"?">>) IN
    IF begin # -1 THEN Trim(SubstringFrom(url, begin)) ELSE <<>>

\* lines 161-165: the text after the first '?', trimmed; '' without a '?'
QueryPart(url) ==
    LET begin == IndexOf(url, <<"?">>) IN
    IF begin # -1 THEN Trim(SubstringFrom(url, begin + 1)) ELSE <<>>

\* SortTokens gone wrong: the tokens are joined in the order given
SortTokensForgotten(qsArray) == qsArray

\* lines 168 and 183: qsArray.sort()
SortTokens(qsArray) == ArraySort(qsArray)

\* lines 179-182: one key=value token per own key, in insertion order
QueryTokens(pairs) ==
    [i \in 1..Len(pairs) |-> pairs[i][1] \o <<"=">> \o pairs[i][2]]

getCanonicalQueryString(elem, method) ==
    IF TypeOf(elem) = "string" THEN
        LET cqs == QueryPart(elem.val) IN
        IF IndexOf(cqs, <<"&">>) # -1
        THEN Str(EncodeURI(Trim(Join(SortTokens(Split(cqs, "&")), "&"))))
        ELSE Str(EncodeURI(cqs))
    ELSE IF TypeOf(elem) = "object" /\ method = GET THEN
        IF elem.type = "null" THEN Threw
        ELSE Str(EncodeURI(Trim(Join(SortTokens(QueryTokens(elem.val)), "&"))))
    ELSE Str(EncodeURI(<<>>))

-----------------------------------------------------------------------------
(* prepareHeadersEntries, getSignedHeaders, getCanonicalHeadres *)

\* lines 209-211: key.trim().replace('  ',' ').toLowerCase()
NormalizeName(key) == ToLowerCase(ReplaceFirst(Trim(key), <<" ", " ">>, <<" ">>))

\* lines 213-214: while (newVal.indexOf('  ') !== -1) newVal = newVal.replace('  ',' ')
RECURSIVE CollapseSpaces(_)
CollapseSpaces(newVal) ==
    IF IndexOf(newVal, <<" ", " ">>) # -1
    THEN CollapseSpaces(ReplaceFirst(newVal, <<" ", " ">>, <<" ">>))
    ELSE newVal

\* lines 212-214
NormalizeValue(val) == CollapseSpaces(Trim(val))

\* line 216: objectHeaders[newKey] = newVal; an existing key keeps its place
PutHeader(objectHeaders, newKey, newVal) ==
    IF \E i \in 1..Len(objectHeaders) : objectHeaders[i][1] = newKey
    THEN [i \in 1..Len(objectHeaders) |->
             IF objectHeaders[i][1] = newKey THEN <<newKey, newVal>>
             ELSE objectHeaders[i]]
    ELSE Append(objectHeaders, <<newKey, newVal>>)

\* lines 203-217: the forEach over Object.keys(reqHeaders)
RECURSIVE StoreHeaders(_, _)
StoreHeaders(pairs, objectHeaders) ==
    IF pairs = <<>> THEN objectHeaders
    ELSE StoreHeaders(Tail(pairs),
                      PutHeader(objectHeaders,
                                NormalizeName(pairs[1][1]),
                                NormalizeValue(pairs[1][2])))

HasHeaders(reqHeaders) == reqHeaders.type \notin {"undefined", "null"}

\* prepareHeadersEntries(reqHeaders): the new value of this.headers, given the
\* old one.  Without headers it logs to the console and returns normally.
prepareHeadersEntries(reqHeaders, headers) ==
    IF HasHeaders(reqHeaders)
    THEN Obj(StoreHeaders(reqHeaders.val, <<>>))
    ELSE headers

\* line 207: the setRequestHeader calls it makes on the XMLHttpRequest
RequestHeaderCalls(reqHeaders) ==
    IF HasHeaders(reqHeaders)
    THEN SelectSeq(reqHeaders.val, LAMBDA p : p[1] # <<"H", "o", "s", "t">>)
    ELSE <<>>

\* SortedKeys gone wrong: the keys are read in insertion order
KeysNotSorted(headers) == ObjectKeys(headers.val)

\* lines 231 and 243: Object.keys(this.headers).sort()
SortedKeys(headers) == ArraySort(ObjectKeys(headers.val))

\* this.headers[key]
HeaderValue(headers, key) ==
    IF \E i \in 1..Len(headers.val) : headers.val[i][1] = key
    THEN Str((CHOOSE p \in {headers.val[i] : i \in 1..Len(headers.val)} :
                 p[1] = key)[2])
    ELSE Undefined

\* getSignedHeaders(); Object.keys(undefined) throws a TypeError
getSignedHeaders(headers) ==
    IF headers.type # "object" THEN Threw
    ELSE Str(Join(SortedKeys(headers), ";"))

RECURSIVE HeaderLines(_, _)
HeaderLines(keys, headers) ==
    IF keys = <<>> THEN <<>>
    ELSE keys[1] \o <<":">> \o HeaderValue(headers, keys[1]).val \o <<"\n">>
         \o HeaderLines(Tail(keys), headers)

\* getCanonicalHeadres()
getCanonicalHeadres(headers) ==
    IF headers.type # "object" THEN Threw
    ELSE Str(HeaderLines(SortedKeys(headers), headers))

-----------------------------------------------------------------------------
(* JSON, CryptoJS *)

\* the text of a value concatenated into a string
ToText(v) ==
    CASE v.type = "string" -> v.val
      [] v.type = "undefined" -> <<"u", "n", "d", "e", "f", "i", "n", "e", "d">>
      [] v.type = "null" -> <<"n", "u", "l", "l">>

JsonEscapeChar(c) ==
    CASE c = "\"" -> <<"\\", "\"">>
      [] c = "\\" -> <<"\\", "\\">>
      [] c = "\n" -> <<"\\", "n">>
      [] OTHER -> <<c>>

RECURSIVE JsonEscape(_)
JsonEscape(s) ==
    IF s = <<>> THEN <<>> ELSE JsonEscapeChar(Head(s)) \o JsonEscape(Tail(s))

JsonQuote(s) == <<"\"">> \o JsonEscape(s) \o <<"\"">>

\* JSON.stringify(v): undefined for undefined, else the JSON text
JSONstringify(v) ==
    CASE v.type = "undefined" -> Undefined
      [] v.type = "null" -> Str(<<"n", "u", "l", "l">>)
      [] v.type = "string" -> Str(JsonQuote(v.val))
      [] v.type = "object" ->
            Str(<<"{">>
                \o Join([i \in 1..Len(v.val) |->
                            JsonQuote(v.val[i][1]) \o <<":">> \o JsonQuote(v.val[i][2])],
                        ",")
                \o <<"}">>)

\* JSON.encode(v).  JSON.encode is no part of JavaScript: MooTools defines it
\* (as a call of the native JSON.stringify).  Version 1.1 depends on CryptoJS
\* alone; on a page without MooTools the call throws a TypeError.
JSONencode(lib, v) ==
    IF lib = "mootools" THEN JSONstringify(v) ELSE Threw

\* CryptoJS.SHA256(message).toString().toLowerCase(): the digest is written
\* sha256(message), an injective stand-in for its 64 hexadecimal digits; an
\* undefined message is hashed as the empty message
Sha256Hex(message) ==
    <<"s", "h", "a", "2", "5", "6", "(">>
        \o (IF message.type = "string" THEN message.val ELSE <<>>)
        \o <<")">>

\* CryptoJS.HmacSHA256(message, key): a keyed digest, kept symbolic
HmacSHA256(message, key) == [hmac |-> message, key |-> key]

-----------------------------------------------------------------------------
(* getHashedPayload, getCanonicalRequest, getSignature, prepareRequest *)

\* what getHashedPayload() passes to CryptoJS.SHA256
HashedPayloadInput(o) ==
    IF o.method = GET THEN Str(<<>>) ELSE JSONencode(o.lib, o.params)

\* getHashedPayload()
getHashedPayload(o) ==
    IF HashedPayloadInput(o) = Threw THEN Threw
    ELSE Str(Sha256Hex(HashedPayloadInput(o)))

\* lines 86-91: the six fields of the canonical request, in order
CanonicalRequestFields(o) ==
    <<Str(o.method), o.URI, o.queryString, getCanonicalHeadres(o.headers),
      getSignedHeaders(o.headers), getHashedPayload(o)>>

\* getCanonicalRequest(): the fields joined with '\n'
getCanonicalRequest(o) ==
    LET fields == CanonicalRequestFields(o) IN
    IF \E i \in 1..Len(fields) : fields[i] = Threw THEN Threw
    ELSE Str(Join([i \in 1..Len(fields) |-> fields[i].val], "\n"))

\* getCanonicalRequestDigest()
getCanonicalRequestDigest(o) ==
    IF getCanonicalRequest(o) = Threw THEN Threw
    ELSE Str(Sha256Hex(getCanonicalRequest(o)))

AWS4 == <<"A", "W", "S", "4">>

Algorithm ==
    <<"A", "W", "S", "4", "-", "H", "M", "A", "C", "-",
      "S", "H", "A", "2", "5", "6">>

Aws4Request == <<"a", "w", "s", "4", "_", "r", "e", "q", "u", "e", "s", "t">>

XAmzDate == <<"x", "-", "a", "m", "z", "-", "d", "a", "t", "e">>

\* <date>/<region>/<service>/aws4_request
CredentialScope(o, date) ==
    date \o <<"/">> \o o.region \o <<"/">> \o o.service \o <<"/">> \o Aws4Request

\* getSignature(): its new Date() for kDate is the instant tKey, the one for
\* the string to sign the instant tScope
getSignature(o, tKey, tScope, zone) ==
    LET kDate == HmacSHA256(getDate(tKey, zone), AWS4 \o o.awsCredentials.secretAccessKey)
        kRegion == HmacSHA256(o.region, kDate)
        kService == HmacSHA256(o.service, kRegion)
        signignKey == HmacSHA256(Aws4Request, kService)
        stringToSign ==
            Algorithm \o <<"\n">>
                \o ToText(HeaderValue(o.headers, XAmzDate)) \o <<"\n">>
                \o CredentialScope(o, getDate(tScope, zone)) \o <<"\n">>
                \o getCanonicalRequestDigest(o).val
    IN  IF getCanonicalRequestDigest(o) = Threw THEN Threw
        ELSE [type |-> "signature",
              kDate |-> kDate,
              stringToSign |-> stringToSign,
              signature |-> HmacSHA256(stringToSign, signignKey)]

\* prepareRequest(): the Authorization header it builds; its new Date() for
\* the Credential field is the instant tCred <= tKey <= tScope
prepareRequest(o, tCred, tKey, tScope, zone) ==
    LET s == getSignature(o, tKey, tScope, zone) IN
    IF s = Threw THEN Threw
    ELSE [type |-> "signed",
          credential |->
              o.awsCredentials.accessKeyId \o <<"/">>
                  \o CredentialScope(o, getDate(tCred, zone)),
          signedHeaders |-> getSignedHeaders(o.headers).val,
          kDate |-> s.kDate,
          stringToSign |-> s.stringToSign,
          signature |-> s.signature]

\* toQueryString(obj)
toQueryString(pairs) ==
    Join([i \in 1..Len(pairs) |->
             EncodeURIComponent(pairs[i][1]) \o <<"=">>
                 \o EncodeURIComponent(pairs[i][2])],
         "&")


-----------------------------------------------------------------------------
(* constructor, send, onreadystatechange *)

HostName == <<"H", "o", "s", "t">>

XAmzDateName == <<"X", "-", "A", "m", "z", "-", "D", "a", "t", "e">>

ContentTypeName ==
    <<"C", "o", "n", "t", "e", "n", "t", "-", "T", "y", "p", "e">>

ApplicationJson ==
    <<"a", "p", "p", "l", "i", "c", "a", "t", "i", "o", "n", "/", "j", "s", "o", "n">>

\* lines 41-44: params is a plain object with at least one own key
IsNonEmptyPlainObject(params) == params.type = "object" /\ Len(params.val) > 0

\* lines 36-47: the headers literal of the constructor
ConstructorHeaders(options, method, t, tDate, zone) ==
    Obj(<< <<HostName, getHost(options.url)>>,
           <<XAmzDateName, getISO8601Date(t, tDate, zone)>> >>
        \o (IF IsNonEmptyPlainObject(options.params) /\ method # GET
            THEN << <<ContentTypeName, ApplicationJson>> >>
            ELSE <<>>))

\* lines 48-51: the URL the request is opened on
RequestUrl(options, method) ==
    IF IsNonEmptyPlainObject(options.params) /\ method = GET
    THEN options.url \o <<"?">> \o toQueryString(options.params.val)
    ELSE options.url

\* new AWSRequestSV4(options), the new Date() calls of its getISO8601Date()
\* being the instants t and tDate: the object and its XMLHttpRequest, or the
\* TypeError of getCanonicalQueryString(null) for a GET request
Construct(options, t, tDate, zone) ==
    LET method == ToUpperCase(Trim(options.method))
        queryString == getCanonicalQueryString(options.params, method)
        headers == ConstructorHeaders(options, method, t, tDate, zone)
    IN  IF queryString = Threw THEN Threw
        ELSE [type |-> "constructed",
              obj |-> [pc |-> "constructed",
                       lib |-> options.lib,
                       awsCredentials |-> options.awsCredentials,
                       service |-> options.service,
                       region |-> options.region,
                       method |-> method,
                       URI |-> Str(getCanonicalURI(options.url)),
                       params |-> options.params,
                       queryString |-> queryString,
                       headers |-> prepareHeadersEntries(headers, Undefined),
                       prepareCalls |-> 0],
              request |-> [method |-> method,
                           url |-> RequestUrl(options, method),
                           async |-> options.async,
                           onSuccess |-> options.onSuccess,
                           onFailure |-> options.onFailure,
                           readyState |-> 1,
                           status |-> 0,
                           loading |-> 0,
                           headers |-> RequestHeaderCalls(headers),
                           authorization |-> NoResult,
                           sendCalled |-> FALSE,
                           body |-> NoResult]]

\* lines 380-385: the argument of this.request.send
SentBody(o) == IF o.method # GET THEN JSONstringify(o.params) ELSE Undefined

\* lines 55-74: the callbacks that onreadystatechange calls at one event
HandlerCalls(req, readyState, status) ==
    IF readyState = 4 /\ status = 200
    THEN IF req.onSuccess
         THEN <<[callback |-> "onSuccess", readyState |-> readyState, status |-> status]>>
         ELSE <<>>
    ELSE IF req.onFailure
         THEN <<[callback |-> "onFailure", readyState |-> readyState, status |-> status]>>
         ELSE <<>>

-----------------------------------------------------------------------------
(* Bounded inputs *)

\* all strings over alphabet of length at most n
StringsUpTo(alphabet, n) == UNION {[1..k -> alphabet] : k \in 0..n}

\* the sequences without repetition of at most n elements of S
RECURSIVE DistinctSeqs(_, _)
DistinctSeqs(S, n) ==
    IF n = 0 THEN {<<>>}
    ELSE {<<>>} \cup
         {sq \in {<<x>> \o rest : x \in S, rest \in DistinctSeqs(S, n - 1)} :
             \A i \in 2..Len(sq) : sq[i] # sq[1]}

\* plain objects of at most n own keys: <<key, value>> pairs, keys distinct
ObjectsUpTo(keys, vals, n) ==
    UNION {{[i \in 1..Len(ks) |-> <<ks[i], v[i]>>] : v \in [1..Len(ks) -> vals]} :
              ks \in DistinctSeqs(keys, n)}

\* the orders in which the same pairs can have been inserted
InsertionOrders(sq) ==
    {[i \in 1..Len(sq) |-> sq[p[i]]] :
        p \in {f \in [1..Len(sq) -> 1..Len(sq)] :
                  \A i, j \in 1..Len(sq) : f[i] = f[j] => i = j}}

IsSorted(arr) ==
    \A i \in 1..(Len(arr) - 1) : arr[i] = arr[i + 1] \/ StrLess(arr[i], arr[i + 1])

-----------------------------------------------------------------------------
(* State.  Each specification below exercises one part of the class; the    *)
(* parts it does not exercise stay idle.                                    *)

QsIdle ==
    qs = [pc |-> "idle", elem |-> Undefined, method |-> GET,
          cqs |-> NoResult, again |-> NoResult, asUrl |-> NoResult]

HdrIdle ==
    hdr = [pc |-> "idle", reqHeaders |-> Undefined, headers |-> Undefined,
           outcome |-> "none", consoleErrors |-> 0, requestHeaders |-> <<>>,
           canonical |-> NoResult, signed |-> NoResult]

LocIdle == loc = [pc |-> "idle", url |-> <<>>, URI |-> NoResult, host |-> NoResult]

ClkIdle ==
    clk = [pc |-> "idle", now |-> 0, zone |-> 0, ticks |-> 0,
           readDate |-> 0, date |-> NoResult,
           readTime |-> 0, readIsoDate |-> 0, iso |-> NoResult]

NoObject(pc) ==
    [pc |-> pc, lib |-> "plain",
     awsCredentials |-> [accessKeyId |-> <<>>, secretAccessKey |-> <<>>,
                         sessionToken |-> <<>>],
     service |-> <<>>, region |-> <<>>, method |-> <<>>, URI |-> NoResult,
     params |-> Undefined, queryString |-> NoResult, headers |-> Undefined,
     prepareCalls |-> 0]

NoRequest ==
    [method |-> <<>>, url |-> <<>>, async |-> TRUE, onSuccess |-> FALSE,
     onFailure |-> FALSE, readyState |-> 0, status |-> 0, loading |-> 0,
     headers |-> <<>>, authorization |-> NoResult, sendCalled |-> FALSE,
     body |-> NoResult]

NoSignature == [auth |-> NoResult, hashed |-> NoResult]

ObjIdle ==
    /\ obj = NoObject("idle")
    /\ request = NoRequest
    /\ sig = NoSignature
    /\ calls = <<>>

objVars == <<obj, request, sig, calls>>

-----------------------------------------------------------------------------
(* Query-string canonicalisation on its own: getCanonicalQueryString is     *)
(* applied to an input, then to its own result                              *)

MaxQsLen == 4

MaxParams == 2

QsAlphabet == {"a", "b", "&", "?", " ", "%"}

QsKeys == {<<"a">>, <<"z">>, <<"a", "1">>}

QsVals == {<<"1">>, <<"2">>, <<"x", " ">>}

QsElems ==
    {Str(s) : s \in StringsUpTo(QsAlphabet, MaxQsLen)}
    \cup {Obj(o) : o \in ObjectsUpTo(QsKeys, QsVals, MaxParams)}
    \cup {Undefined, Null}

InitQS ==
    /\ ObjIdle
    /\ HdrIdle
    /\ ClkIdle
    /\ LocIdle
    /\ qs \in {[pc |-> "input", elem |-> e, method |-> m,
             cqs |-> NoResult, again |-> NoResult, asUrl |-> NoResult] :
               e \in QsElems, m \in {GET, <<"P", "O", "S", "T">>}}

\* this.queryString = this.getCanonicalQueryString(options.params)
Canonicalize ==
    /\ qs.pc = "input"
    /\ qs' = [qs EXCEPT !.pc = "canonical",
                        !.cqs = getCanonicalQueryString(qs.elem, qs.method)]
    /\ UNCHANGED <<hdr, loc, clk, objVars>>

\* the result canonicalised again: as it is, and as the query of a URL
Recanonicalize ==
    /\ qs.pc = "canonical"
    /\ qs.cqs.type = "string"
    /\ qs' = [qs EXCEPT
                !.pc = "again",
                !.again = getCanonicalQueryString(qs.cqs, qs.method),
                !.asUrl = getCanonicalQueryString(Str(<<"?">> \o qs.cqs.val),
                                                  qs.method)]
    /\ UNCHANGED <<hdr, loc, clk, objVars>>

NextQS == Canonicalize \/ Recanonicalize

SpecQS == InitQS /\ [][NextQS]_vars

-----------------------------------------------------------------------------
(* Header canonicalisation on its own: prepareHeadersEntries is called on a  *)
(* constructed object, then the canonical headers and the signed-headers    *)
(* list are read                                                            *)

MaxHeaders == 2

HdrNames ==
    {<<"H", "o", "s", "t">>, <<"h", "o", "s", "t">>, <<"h", "o", "s", "t", " ">>,
     <<"X">>, <<"a", " ", " ", " ", "b">>}

HdrVals == {<<"1">>, <<"2">>, <<" ", "1", " ", " ", " ", "2">>}

HdrInputs ==
    {Obj(o) : o \in ObjectsUpTo(HdrNames, HdrVals, MaxHeaders)}
    \cup {Undefined, Null}

\* this.headers as the constructor leaves it for a GET request
ConstructedHeaders ==
    Obj(<< <<<<"h", "o", "s", "t">>, <<"h">>>>,
           <<<<"x", "-", "a", "m", "z", "-", "d", "a", "t", "e">>,
             <<"2", "0", "2", "3", "0", "1", "0", "1", "T",
               "0", "0", "0", "0", "0", "0", "Z">>>> >>)

InitHdr ==
    /\ ObjIdle
    /\ QsIdle
    /\ ClkIdle
    /\ LocIdle
    /\ hdr \in {[pc |-> "input", reqHeaders |-> h, headers |-> ConstructedHeaders,
              outcome |-> "none", consoleErrors |-> 0, requestHeaders |-> <<>>,
              canonical |-> NoResult, signed |-> NoResult] : h \in HdrInputs}

\* this.prepareHeadersEntries(headers): returns normally in both branches
PrepareHeadersEntries ==
    /\ hdr.pc = "input"
    /\ hdr' = [hdr EXCEPT
                 !.pc = "prepared",
                 !.headers = prepareHeadersEntries(hdr.reqHeaders, hdr.headers),
                 !.requestHeaders = RequestHeaderCalls(hdr.reqHeaders),
                 !.consoleErrors =
                     IF HasHeaders(hdr.reqHeaders) THEN 0 ELSE 1,
                 !.outcome = "returned"]
    /\ UNCHANGED <<qs, loc, clk, objVars>>

\* getCanonicalHeadres() and getSignedHeaders() on the prepared object
ReadHeaders ==
    /\ hdr.pc = "prepared"
    /\ hdr' = [hdr EXCEPT
                 !.pc = "read",
                 !.canonical = getCanonicalHeadres(hdr.headers),
                 !.signed = getSignedHeaders(hdr.headers),
                 !.outcome =
                     IF getSignedHeaders(hdr.headers) = Threw
                     THEN "TypeError" ELSE "returned"]
    /\ UNCHANGED <<qs, loc, clk, objVars>>

NextHdr == PrepareHeadersEntries \/ ReadHeaders

SpecHdr == InitHdr /\ [][NextHdr]_vars

-----------------------------------------------------------------------------
(* URL decomposition on its own: the constructor's getCanonicalURI(url) and *)
(* getHost(url)                                                             *)

MaxUrlRest == 3

UrlAlphabet == {"h", "H", "/", "?", "a", " "}

\* scheme://rest, and rest alone (a URL without "//")
Urls ==
    {<<"s", ":", "/", "/">> \o r : r \in StringsUpTo(UrlAlphabet, MaxUrlRest)}
    \cup StringsUpTo(UrlAlphabet, MaxUrlRest)

InitUrl ==
    /\ ObjIdle
    /\ QsIdle
    /\ ClkIdle
    /\ HdrIdle
    /\ loc \in {[pc |-> "input", url |-> x, URI |-> NoResult, host |-> NoResult] :
                  x \in Urls}

\* line 32: this.URI = this.getCanonicalURI(options.url)
CanonicalURI ==
    /\ loc.pc = "input"
    /\ loc' = [loc EXCEPT !.pc = "uri", !.URI = Str(getCanonicalURI(loc.url))]
    /\ UNCHANGED <<qs, hdr, clk, objVars>>

\* line 37: 'Host': this.getHost(options.url)
Host ==
    /\ loc.pc = "uri"
    /\ loc' = [loc EXCEPT !.pc = "host", !.host = Str(getHost(loc.url))]
    /\ UNCHANGED <<qs, hdr, clk, objVars>>

NextUrl == CanonicalURI \/ Host

SpecUrl == InitUrl /\ [][NextUrl]_vars

-----------------------------------------------------------------------------
(* The timestamps on their own: getDate() and getISO8601Date() are called   *)
(* while the wall clock runs                                                *)

MaxTicks == 2

\* 2023-01-31T23:59:59Z, 2023-03-01T00:00:05Z, 2023-06-15T12:00:00Z,
\* 2023-12-31T23:30:00Z
Instants == {1675209599, 1677628805, 1686830400, 1704065400}

\* UTC, UTC+01:00, UTC-05:00, UTC+05:30
Zones == {0, 60, -300, 330}

InitDate ==
    /\ ObjIdle
    /\ QsIdle
    /\ HdrIdle
    /\ LocIdle
    /\ clk \in {[pc |-> "input", now |-> t, zone |-> z, ticks |-> 0,
                 readDate |-> 0, date |-> NoResult,
                 readTime |-> 0, readIsoDate |-> 0, iso |-> NoResult] :
                   t \in Instants, z \in Zones}

\* a second passes
Tick ==
    /\ clk.pc # "idle"
    /\ clk.ticks < MaxTicks
    /\ clk' = [clk EXCEPT !.now = clk.now + 1, !.ticks = clk.ticks + 1]
    /\ UNCHANGED <<qs, hdr, loc, objVars>>

\* getDate()
GetDate ==
    /\ clk.pc = "input"
    /\ clk' = [clk EXCEPT !.pc = "date",
                          !.readDate = clk.now,
                          !.date = Str(getDate(clk.now, clk.zone))]
    /\ UNCHANGED <<qs, hdr, loc, objVars>>

\* getISO8601Date(): the clock may advance between its two new Date()
GetISO8601Date ==
    /\ clk.pc = "date"
    /\ \E elapsed \in 0..(IF clk.ticks < MaxTicks THEN 1 ELSE 0) :
          clk' = [clk EXCEPT
                    !.pc = "iso",
                    !.now = clk.now + elapsed,
                    !.ticks = clk.ticks + elapsed,
                    !.readTime = clk.now,
                    !.readIsoDate = clk.now + elapsed,
                    !.iso = Str(getISO8601Date(clk.now, clk.now + elapsed,
                                               clk.zone))]
    /\ UNCHANGED <<qs, hdr, loc, objVars>>

NextDate == Tick \/ GetDate \/ GetISO8601Date

SpecDate == InitDate /\ [][NextDate]_vars

-----------------------------------------------------------------------------
(* One signing operation: new AWSRequestSV4(options), then send(), while    *)
(* the wall clock runs; prepareHeadersEntries may be called in between      *)

MaxPrepareCalls == 1

Libs == {"plain", "mootools"}

Methods ==
    {GET, <<"g", "e", "t", " ">>, <<"P", "U", "T">>, <<"P", "O", "S", "T">>,
     <<"P", "A", "T", "C", "H">>, <<"D", "E", "L", "E", "T", "E">>}

SigningUrls ==
    {<<"s", ":", "/", "/", "h", "/", "A">>, <<"s", ":", "/", "/", "h">>,
     <<"s", ":", "/", "/", "h", "/", "A", "?", "c">>}

SigningParams ==
    {Undefined, Null, Obj(<<>>),
     Obj(<< <<<<"a">>, <<"1">>>> >>),
     Obj(<< <<<<"z">>, <<"1">>>>, <<<<"a">>, <<"x", " ">>>> >>),
     Obj(<< <<<<"a">>, <<"/">>>> >>),
     Str(<<"?", "b", "&", "a">>)}

Credentials ==
    [accessKeyId |-> <<"A", "K">>, secretAccessKey |-> <<"S", "K">>,
     sessionToken |-> <<"S", "T">>]

OptionsOf(lib, method, url, params, async, onSuccess, onFailure) ==
    [lib |-> lib, awsCredentials |-> Credentials, service |-> <<"s">>,
     region |-> <<"r">>, method |-> method, url |-> url, params |-> params,
     async |-> async, onSuccess |-> onSuccess, onFailure |-> onFailure]

SigningOptions ==
    {OptionsOf(lib, method, url, params, TRUE, TRUE, TRUE) :
        lib \in Libs, method \in Methods, url \in SigningUrls,
        params \in SigningParams}

\* 2023-01-31T23:59:59Z, 2023-06-15T12:00:00Z
SigningInstants == {1675209599, 1686830400}

SigningZones == {0, 330}

\* header mappings handed to prepareHeadersEntries after construction
LaterHeaders ==
    {Undefined,
     Obj(<< <<<<"X">>, <<"1", " ", " ", "2">>>>, <<<<"B", " ">>, <<"b">>>> >>)}

\* the seconds that may pass between two readings of the clock
Elapsed == 0..(IF clk.ticks < MaxTicks THEN 1 ELSE 0)

Init ==
    /\ QsIdle
    /\ HdrIdle
    /\ LocIdle
    /\ clk \in {[pc |-> "running", now |-> t, zone |-> z, ticks |-> 0,
                 readDate |-> 0, date |-> NoResult,
                 readTime |-> 0, readIsoDate |-> 0, iso |-> NoResult] :
                   t \in SigningInstants, z \in SigningZones}
    /\ obj = NoObject("new")
    /\ request = NoRequest
    /\ sig = NoSignature
    /\ calls = <<>>

\* new AWSRequestSV4(options)
Constructor ==
    /\ obj.pc = "new"
    /\ \E options \in SigningOptions, elapsed \in Elapsed :
          LET c == Construct(options, clk.now, clk.now + elapsed, clk.zone) IN
          /\ clk' = [clk EXCEPT !.now = clk.now + elapsed,
                                !.ticks = clk.ticks + elapsed]
          /\ IF c = Threw
             THEN obj' = [obj EXCEPT !.pc = "threw"] /\ UNCHANGED request
             ELSE obj' = c.obj /\ request' = c.request
    /\ UNCHANGED <<qs, hdr, loc, sig, calls>>

\* prepareHeadersEntries(reqHeaders), called on the constructed object
CallPrepareHeadersEntries ==
    /\ obj.pc = "constructed"
    /\ obj.prepareCalls < MaxPrepareCalls
    /\ \E reqHeaders \in LaterHeaders :
          /\ obj' = [obj EXCEPT
                       !.headers = prepareHeadersEntries(reqHeaders, obj.headers),
                       !.prepareCalls = obj.prepareCalls + 1]
          /\ request' = [request EXCEPT
                           !.headers = request.headers
                                           \o RequestHeaderCalls(reqHeaders)]
    /\ UNCHANGED <<qs, hdr, loc, clk, sig, calls>>

\* send(): prepareRequest(), which calls getSignature(), then
\* this.request.send(...).  A TypeError thrown while signing ends it.
Send ==
    /\ obj.pc = "constructed"
    /\ \E toKey \in Elapsed :
          \E toScope \in 0..(IF clk.ticks + toKey < MaxTicks THEN 1 ELSE 0) :
             LET tCred == clk.now
                 tKey == clk.now + toKey
                 tScope == clk.now + toKey + toScope
                 auth == prepareRequest(obj, tCred, tKey, tScope, clk.zone)
             IN  /\ clk' = [clk EXCEPT !.now = tScope,
                                       !.ticks = clk.ticks + toKey + toScope]
                 /\ sig' = [auth |-> auth, hashed |-> HashedPayloadInput(obj)]
                 /\ IF auth = Threw
                    THEN obj' = [obj EXCEPT !.pc = "threw"] /\ UNCHANGED request
                    ELSE /\ obj' = [obj EXCEPT !.pc = "sent"]
                         /\ request' = [request EXCEPT
                                          !.authorization = auth,
                                          !.sendCalled = TRUE,
                                          !.body = SentBody(obj)]
    /\ UNCHANGED <<qs, hdr, loc, calls>>

Next == Constructor \/ Tick \/ CallPrepareHeadersEntries \/ Send

Spec == Init /\ [][Next]_vars

-----------------------------------------------------------------------------
(* The transport of one request: the XMLHttpRequest of a constructed object *)
(* is sent and changes its readyState, each change running the handler the  *)
(* constructor attached                                                      *)

MaxLoading == 2

ResponseStatuses == {200, 404}

TransportOptions ==
    {OptionsOf("mootools", method, <<"s", ":", "/", "/", "h", "/", "A">>,
               Obj(<< <<<<"a">>, <<"1">>>> >>), async, onSuccess, onFailure) :
        method \in {GET, <<"P", "O", "S", "T">>},
        async \in BOOLEAN, onSuccess \in BOOLEAN, onFailure \in BOOLEAN}

InitXhr ==
    /\ QsIdle
    /\ HdrIdle
    /\ LocIdle
    /\ clk = [pc |-> "running", now |-> 1686830400, zone |-> 0,
              ticks |-> MaxTicks, readDate |-> 0, date |-> NoResult,
              readTime |-> 0, readIsoDate |-> 0, iso |-> NoResult]
    /\ \E options \in TransportOptions :
          /\ obj = Construct(options, clk.now, clk.now, clk.zone).obj
          /\ request = Construct(options, clk.now, clk.now, clk.zone).request
    /\ sig = NoSignature
    /\ calls = <<>>

\* the XMLHttpRequest reaches a new readyState (or the same, LOADING, again)
\* with the status it then has, and runs onreadystatechange
StateChanges(readyState, status) ==
    /\ request' = [request EXCEPT
                     !.readyState = readyState,
                     !.status = status,
                     !.loading = IF readyState = 3 THEN request.loading + 1
                                 ELSE request.loading]
    /\ calls' = calls \o HandlerCalls(request, readyState, status)
    /\ UNCHANGED <<qs, hdr, loc, clk, obj, sig>>

ReadyStateChange ==
    /\ request.sendCalled
    /\ request.readyState # 4
    /\ IF request.async
       THEN \/ /\ request.readyState = 1
               /\ \E status \in ResponseStatuses : StateChanges(2, status)
            \/ /\ request.readyState \in {2, 3}
               /\ request.loading < MaxLoading
               /\ StateChanges(3, request.status)
            \/ /\ request.readyState \in {2, 3}
               /\ StateChanges(4, request.status)
            \/ StateChanges(4, 0)
       ELSE \E status \in ResponseStatuses : StateChanges(4, status)

NextXhr == Send \/ ReadyStateChange

SpecXhr == InitXhr /\ [][NextXhr]_vars

-----------------------------------------------------------------------------
(* Properties of query-string canonicalisation (SpecQS) *)

\* the characters encodeURI leaves as they are
UriSafe(s) == \A i \in 1..Len(s) : EncodeURIChar(s[i]) = <<s[i]>>

\* q is already canonical: its '&'-separated tokens are in sorted order
CanonicalQuery(q) == IsSorted(Split(q, "&"))

QsStringCase == qs.pc # "input" /\ qs.elem.type = "string"

\* C6 (as claimed): query-string canonicalisation is idempotent: an already
\* canonical query string q is returned unchanged by
\* getCanonicalQueryString(q), and canonicalising the result of a
\* canonicalisation again gives the same result.
C6_CanonicalizationIdempotent ==
    /\ (QsStringCase /\ CanonicalQuery(qs.elem.val)) => qs.cqs = qs.elem
    /\ (qs.pc = "again" /\ qs.elem.type = "string") => qs.again = qs.cqs

\* C6 (amended): getCanonicalQueryString reads its string argument as a URL
\* and canonicalises what follows the first '?'.  A canonical query string q
\* of characters that encodeURI keeps comes back unchanged when it is given
\* as the query part of a URL (u?q, u without '?'); for an input of such
\* characters, canonicalising '?' + result gives the result again; a string
\* without '?' canonicalises to the empty string.
C6_CanonicalQueryOfUrlUnchanged ==
    /\ QsStringCase =>
          \A k \in 1..Len(qs.elem.val) :
              LET q == SubSeq(qs.elem.val, k + 1, Len(qs.elem.val)) IN
              (/\ qs.elem.val[k] = "?"
               /\ \A j \in 1..(k - 1) : qs.elem.val[j] # "?"
               /\ CanonicalQuery(q)
               /\ UriSafe(q)) => qs.cqs = Str(q)
    /\ (qs.pc = "again" /\ qs.elem.type = "string" /\ UriSafe(qs.elem.val))
          => qs.asUrl = qs.cqs
    /\ (QsStringCase /\ \A k \in 1..Len(qs.elem.val) : qs.elem.val[k] # "?")
          => qs.cqs = Str(<<>>)

\* a canonical two-token query given after '?' has been canonicalised, twice
C6_Witness ==
    /\ qs.pc = "again"
    /\ qs.elem = Str(<<"?", "a", "&", "b">>)
    /\ qs.cqs = Str(<<"a", "&", "b">>)
    /\ qs.asUrl = Str(<<"a", "&", "b">>)

\* the key=value token of one entry of the mapping
TokenOf(pair) == pair[1] \o <<"=">> \o pair[2]

\* the tokens of the mapping in sorted order (they are distinct: keys are)
SortedTokensOf(pairs) ==
    CHOOSE t \in InsertionOrders([i \in 1..Len(pairs) |-> TokenOf(pairs[i])]) :
        IsSorted(t)

QsMappingCase ==
    qs.pc # "input" /\ qs.method = GET /\ qs.elem.type = "object"

\* the same mapping with its keys inserted in another order gives the same
OrderIndependent ==
    \A o \in InsertionOrders(qs.elem.val) :
        getCanonicalQueryString(Obj(o), GET) = qs.cqs

\* C8 (as claimed): for a GET request with a structured parameter mapping the
\* canonical query string is the key=value tokens, sorted by full token and
\* joined with '&', whatever the insertion order of the keys.
C8_SortedTokensJoined ==
    QsMappingCase =>
        /\ qs.cqs = Str(Join(SortedTokensOf(qs.elem.val), "&"))
        /\ OrderIndependent

\* C8 (amended): for a GET request with a structured parameter mapping the
\* canonical query string is the key=value tokens, sorted by full token and
\* joined with '&', then trimmed and passed as a whole through encodeURI,
\* whatever the insertion order of the keys.
C8_SortedTokensJoinedEncoded ==
    QsMappingCase =>
        /\ qs.cqs = Str(EncodeURI(Trim(Join(SortedTokensOf(qs.elem.val), "&"))))
        /\ OrderIndependent

\* {z:1, a:2} has been canonicalised to "a=2&z=1"
C8_Witness ==
    /\ qs.pc = "canonical"
    /\ qs.method = GET
    /\ qs.elem = Obj(<< <<<<"z">>, <<"1">>>>, <<<<"a">>, <<"2">>>> >>)
    /\ qs.cqs = Str(<<"a", "=", "2", "&", "z", "=", "1">>)

-----------------------------------------------------------------------------
(* Properties of header canonicalisation (SpecHdr) *)

\* C5 (as claimed): when prepareHeadersEntries is given no headers (undefined
\* or null) it fails fast, signalling a construction error to the caller; it
\* does not return normally.
C5_NoHeadersFailsFast ==
    (hdr.pc # "input" /\ ~HasHeaders(hdr.reqHeaders))
        => hdr.outcome = "ConstructionError"

HdrReadCase == hdr.pc = "read" /\ HasHeaders(hdr.reqHeaders)

\* the canonical headers block and the signed-headers list that the same
\* mapping gives when its entries were inserted in the order o
CanonicalOf(o) == getCanonicalHeadres(prepareHeadersEntries(Obj(o), Undefined))

SignedOf(o) == getSignedHeaders(prepareHeadersEntries(Obj(o), Undefined))

\* no two names of the mapping normalise to the same stored name
NamesStayDistinct(pairs) ==
    \A i, j \in 1..Len(pairs) :
        NormalizeName(pairs[i][1]) = NormalizeName(pairs[j][1]) => i = j

\* C7 (as claimed): header canonicalisation is order-independent: every
\* permutation of the insertion order of the input mapping gives the same
\* canonical headers block and the same signed-headers list, also when two
\* input names normalise to the same lower-cased name.
C7_OrderIndependent ==
    HdrReadCase =>
        \A o \in InsertionOrders(hdr.reqHeaders.val) :
            /\ CanonicalOf(o) = hdr.canonical
            /\ SignedOf(o) = hdr.signed

\* C7 (amended): every permutation of the insertion order of the input
\* mapping gives the same signed-headers list, and the same canonical headers
\* block provided no two input names normalise to the same name (when two do,
\* the value inserted last is the one kept).
C7_OrderIndependentDistinctNames ==
    HdrReadCase =>
        \A o \in InsertionOrders(hdr.reqHeaders.val) :
            /\ SignedOf(o) = hdr.signed
            /\ NamesStayDistinct(hdr.reqHeaders.val)
                  => CanonicalOf(o) = hdr.canonical

\* two headers inserted in descending name order have been canonicalised
C7_Witness ==
    /\ hdr.pc = "read"
    /\ hdr.reqHeaders =
           Obj(<< <<<<"h", "o", "s", "t", " ">>, <<"1">>>>, <<<<"X">>, <<"2">>>> >>)
    /\ hdr.canonical =
           Str(<<"h", "o", "s", "t", ":", "1", "\n", "x", ":", "2", "\n">>)
    /\ hdr.signed = Str(<<"h", "o", "s", "t", ";", "x">>)

\* s has no leading or trailing whitespace and no two consecutive spaces
Tidy(s) == Trim(s) = s /\ IndexOf(s, <<" ", " ">>) = -1

\* C11: after prepareHeadersEntries, for every input header mapping, every
\* stored header name is lower-case, and every stored name and every stored
\* value has no leading or trailing whitespace and no two consecutive spaces
\* (names are collapsed exactly as values are).
C11_StoredHeadersNormalized ==
    (hdr.pc # "input" /\ HasHeaders(hdr.reqHeaders)) =>
        \A i \in 1..Len(hdr.headers.val) :
            /\ ToLowerCase(hdr.headers.val[i][1]) = hdr.headers.val[i][1]
            /\ Tidy(hdr.headers.val[i][1])
            /\ Tidy(hdr.headers.val[i][2])

-----------------------------------------------------------------------------
(* Properties of URL decomposition (SpecUrl) *)

\* the text of url after its first "//" (url has one)
AfterSlashes(url) ==
    LET k == CHOOSE i \in 1..Len(url) :
                 /\ OccursAt(url, <<"/", "/">>, i)
                 /\ \A j \in 1..(i - 1) : ~OccursAt(url, <<"/", "/">>, j)
    IN  SubSeq(url, k + 2, Len(url))

\* the text of s up to its first occurrence of c, all of s if there is none
UpTo(s, c) ==
    IF \E i \in 1..Len(s) : s[i] = c
    THEN SubSeq(s, 1, (CHOOSE i \in 1..Len(s) :
                          s[i] = c /\ \A j \in 1..(i - 1) : s[j] # c) - 1)
    ELSE s

\* scheme://host or scheme://host?query: no '/' follows the host
NoPathSegment(url) ==
    /\ \E i \in 2..Len(url) :
           /\ OccursAt(url, <<":", "/", "/">>, i)
           /\ \A j \in 1..i : ~OccursAt(url, <<"/", "/">>, j)
    /\ UpTo(AfterSlashes(url), "?") # <<>>
    /\ \A i \in 1..Len(UpTo(AfterSlashes(url), "?")) :
           UpTo(AfterSlashes(url), "?")[i] # "/"

\* C10 (as claimed): for every URL scheme://host without a path segment, with
\* or without a ?query part, getCanonicalURI returns the empty string and
\* getHost returns the text between the first "//" and the next "/" or the
\* end of the string.
C10_NoPathGivesEmptyURI ==
    (loc.pc = "host" /\ NoPathSegment(loc.url)) =>
        /\ loc.URI = Str(<<>>)
        /\ loc.host = Str(UpTo(AfterSlashes(loc.url), "/"))

-----------------------------------------------------------------------------
(* Properties of the timestamps (SpecDate) *)

\* the decimal digits of n, zero-padded on the left to width w
RECURSIVE Digits(_, _)
Digits(n, w) ==
    IF w = 0 THEN <<>> ELSE Digits(n \div 10, w - 1) \o <<DigitChars[(n % 10) + 1]>>

\* YYYYMMDD of the instant t in UTC
UtcDateStamp(t) ==
    LET d == CivilFromDays(t \div 86400) IN
    Digits(d.year, 4) \o Digits(d.month, 2) \o Digits(d.day, 2)

\* HHMMSS of the instant t in UTC
UtcTimeStamp(t) ==
    Digits((t % 86400) \div 3600, 2) \o Digits((t % 3600) \div 60, 2)
        \o Digits(t % 60, 2)

\* C4 (as claimed): for every instant and every local time-zone offset, every
\* component of the strings returned by getDate() (YYYYMMDD) and
\* getISO8601Date() (YYYYMMDD'T'HHMMSS'Z') is the UTC value of the instant
\* read; no component is taken from local time.
C4_TimestampsAreUTC ==
    /\ clk.pc \in {"date", "iso"} => clk.date = Str(UtcDateStamp(clk.readDate))
    /\ clk.pc = "iso" =>
          clk.iso = Str(UtcDateStamp(clk.readIsoDate) \o <<"T">>
                        \o UtcTimeStamp(clk.readTime) \o <<"Z">>)

-----------------------------------------------------------------------------
(* Properties of one signing operation (Spec) *)

\* the value of the request header `name` set on the XMLHttpRequest
RequestHeader(name) ==
    (CHOOSE h \in {request.headers[i] : i \in 1..Len(request.headers)} :
        h[1] = name)[2]

\* the date part (YYYYMMDD) of the X-Amz-Date header the request carries
HeaderDateStamp == SubSeq(RequestHeader(XAmzDateName), 1, 8)

\* the date stamp that is the data of kDate
KeyDateStamp == sig.auth.kDate.hmac

\* the date stamp of the credential scope, third line of the string to sign
ScopeDateStamp == UpTo(Split(sig.auth.stringToSign, "\n")[3], "/")

\* the date stamp of the Credential field of the Authorization header
CredentialDateStamp == Split(request.authorization.credential, "/")[2]

\* C1 (as claimed): within one signing operation (constructor, then send(),
\* which calls prepareRequest() and getSignature()), however the wall clock
\* advances between those steps, one timestamp is used: the date part of the
\* X-Amz-Date header, the date stamp that is the data of kDate, the date stamp
\* of the credential scope in the string to sign and the date stamp of the
\* Credential field of the Authorization header are all equal.
C1_OneTimestamp ==
    obj.pc = "sent" =>
        /\ KeyDateStamp = HeaderDateStamp
        /\ ScopeDateStamp = HeaderDateStamp
        /\ CredentialDateStamp = HeaderDateStamp

SendReturnedOrThrew == obj.pc \in {"sent", "threw"} /\ sig.auth # NoResult

\* C2 (as claimed): for every request whose method is not GET and every
\* params value, the string that getHashedPayload() hashes is identical to
\* the body string that send() hands to the transport for that request.
C2_HashedPayloadIsBody ==
    (SendReturnedOrThrew /\ obj.method # GET) =>
        /\ request.sendCalled
        /\ sig.hashed = request.body

SupportedMethods ==
    {GET, <<"P", "U", "T">>, <<"P", "O", "S", "T">>,
     <<"P", "A", "T", "C", "H">>, <<"D", "E", "L", "E", "T", "E">>}

\* the stored header names in sorted order (they are distinct)
SortedNames ==
    CHOOSE names \in InsertionOrders(ObjectKeys(obj.headers.val)) : IsSorted(names)

\* the payload whose digest is the last field: '' for GET, else the body
ExpectedPayload ==
    IF obj.method = GET THEN Str(<<>>) ELSE JSONstringify(obj.params)

\* C3 (as claimed): for each supported method and every header set,
\* getCanonicalRequest() returns the six fields METHOD, CanonicalURI,
\* CanonicalQueryString, CanonicalHeaders, SignedHeaders, HashedPayload in
\* this order, each followed by one "\n" except the last, CanonicalHeaders
\* being one "name:value\n" line per header in sorted name order.
C3_CanonicalRequestLayout ==
    (obj.headers.type = "object" /\ obj.method \in SupportedMethods) =>
        LET cr == getCanonicalRequest(obj)
            n == Len(SortedNames)
            lines == Split(cr.val, "\n")
        IN  /\ cr # Threw
            /\ Len(lines) = n + 6
            /\ lines[1] = obj.method
            /\ lines[2] = obj.URI.val
            /\ lines[3] = obj.queryString.val
            /\ \A i \in 1..n :
                  lines[3 + i] = SortedNames[i] \o <<":">>
                                     \o HeaderValue(obj.headers, SortedNames[i]).val
            /\ lines[n + 4] = <<>>
            /\ lines[n + 5] = Join(SortedNames, ";")
            /\ lines[n + 6] = Sha256Hex(ExpectedPayload)

-----------------------------------------------------------------------------
(* Properties of the transport (SpecXhr) *)

\* C9 (as claimed): for one request and any sequence of readyState changes,
\* onSuccess is invoked only once the request has succeeded (readyState 4
\* with status 200) and onFailure only once it has failed (readyState 4 with
\* another status); onFailure is never invoked for a request still in
\* progress or one that goes on to succeed, and at most one of the two
\* callbacks is invoked, at most once.
C9_CallbacksOnlyOnCompletion ==
    /\ \A i \in 1..Len(calls) :
          /\ calls[i].readyState = 4
          /\ calls[i].callback = "onSuccess" <=> calls[i].status = 200
    /\ Len(calls) <= 1

-----------------------------------------------------------------------------
(* The signed query string and the query string sent (Spec) *)

\* the query part of a URL: what follows its first '?'
UrlQuery(url) ==
    IF IndexOf(url, <<"?">>) = -1 THEN <<>>
    ELSE SubstringFrom(url, IndexOf(url, <<"?">>) + 1)

\* the set of '&'-separated tokens of a query string
TokenSet(s) == {Split(s, "&")[i] : i \in 1..Len(Split(s, "&"))}

\* a GET request has been built from a structured parameter mapping
GetWithMapping ==
    /\ obj.pc \in {"constructed", "sent"}
    /\ obj.method = GET
    /\ IsNonEmptyPlainObject(obj.params)

\* C12: for every GET request built from a structured parameter mapping, the
\* set of key=value tokens of the canonical query string (this.queryString)
\* equals the set of tokens of the query part of the URL handed to the
\* transport, also for values with reserved characters and for URLs that
\* already carry a '?'.
C12_SignedQueryIsSentQuery ==
    GetWithMapping =>
        TokenSet(obj.queryString.val) = TokenSet(UrlQuery(request.url))

====
